---- MODULE Spec2Model ----
(***************************************************************************)
(* Model of AlertManager (src/alert_manager.py): the bounded alert store,  *)
(* the sliding-window rate limiter, the timestamp-derived alert ids and    *)
(* the JSON history file that is read, extended and rewritten on every     *)
(* persist and reloaded by the constructor.                                *)
(*                                                                         *)
(* Time is counted in clock ticks: one tick is the resolution of           *)
(* datetime.now().  The capacities and durations of the source are scaled  *)
(* down so that eviction, truncation and window expiry happen within a    *)
(* few calls; every formula is stated in terms of the named capacity,      *)
(* never of its scaled value.                                              *)
(***************************************************************************)
EXTENDS Integers, Sequences, FiniteSets, TLC

VARIABLES
    clock,                  \* the value datetime.now() returns, in ticks
    max_alerts_per_minute,  \* Config.MAX_ALERTS_PER_MINUTE
    alerts,                 \* self.alerts: deque(maxlen=ALERTS_MAXLEN)
    alert_counts,           \* self.alert_counts: ip -> count (0 = no key)
    recent_alerts,          \* self.recent_alerts: deque(maxlen=RECENT_MAXLEN)
    file,                   \* data/alert_history.json
    calls,                  \* create_alert calls made on this AlertManager
    faults,                 \* file system failures so far
    threads,                \* the callers inside create_alert: where each is
                            \* and its local variables
    lastOp,                 \* the call that produced the current state
    ret                     \* what that call returned to its caller

vars == <<clock, max_alerts_per_minute, alerts, alert_counts, recent_alerts,
          file, calls, faults, threads, lastOp, ret>>

----------------------------------------------------------------------------
(* Program constants, scaled.                                              *)

\* self.alerts = deque(maxlen=1000): 1000 scaled to 2.
ALERTS_MAXLEN == 2
\* self.recent_alerts = deque(maxlen=100): 100 scaled to 2.
RECENT_MAXLEN == 2
\* history[-10000:] in save_alert: 10000 scaled to 3.
HISTORY_CAP == 3
\* history[-1000:] in load_history: 1000 scaled to 2.
LOAD_LAST == 2
\* timedelta(minutes=1) in _should_create_alert: one minute is 2 ticks.
MINUTE == 2
\* [:10] in get_statistics: the 10 top sources scaled to 1.
TOP_IPS == 1
\* timedelta(hours=1) in get_statistics.
HOUR == 60 * MINUTE

(* Bounds of the model.                                                    *)

\* The clock stops advancing here.
MaxClock == 1
\* The clock stops here in the rate limiter's specification.
MaxRateClock == 3
\* Largest configured Config.MAX_ALERTS_PER_MINUTE explored.
MaxPerMinute == 3
\* create_alert calls made on one AlertManager.
MaxCalls == 4
\* File system failures in one behaviour.
MaxFaults == 1
\* Largest age handed to clear_old_alerts, in ticks.
MaxAge == 1
\* One second, in ticks: the length of a burst of calls.
SECOND == 1
\* Largest limit handed to get_alerts.
MaxLimit == 2
\* Number of threads that call create_alert on one AlertManager.
MaxThreads == 2

----------------------------------------------------------------------------
(* Inputs.                                                                 *)

\* request_data / detection_result pairs handed to create_alert.  ip is
\* <<>> when request_data has no 'ip' key.
Requests ==
    { [ip |-> <<"10.0.0.1">>, severity |-> "high"],
      [ip |-> <<>>,           severity |-> "low"] }

OneRequest == { [ip |-> <<"10.0.0.1">>, severity |-> "high"] }

Notes == {"n1", "n2"}

\* Ways the file system can answer one save_alert / load_history call.
SaveOutcomes == {"ok", "io_error", "dump_error"}
LoadOutcomes == {"ok", "io_error"}

\* How many ticks pass inside one create_alert call before each of its
\* three later reads of datetime.now(): the id, the timestamp field, the
\* entry of the rate window.
NoGaps == { <<0, 0, 0>> }
Gaps == { <<0, 0, 0>>, <<1, 0, 0>>, <<0, 1, 0>>, <<0, 0, 1>> }

----------------------------------------------------------------------------
(* Pure helpers.                                                           *)

Min(a, b) == IF a < b THEN a ELSE b

\* s[-n:]
LastN(s, n) ==
    IF Len(s) <= n THEN s ELSE SubSeq(s, Len(s) - n + 1, Len(s))

\* Mutant of DequeAppend: a plain list append, nothing is dropped.
DequeAppendUnbounded(dq, x, maxlen) == Append(dq, x)

\* Mutant of DequeAppend: a full deque drops its newest item, not its oldest.
DequeAppendEvictsNewest(dq, x, maxlen) ==
    IF Len(dq) >= maxlen
    THEN Append(SubSeq(dq, 1, Len(dq) - 1), x)
    ELSE Append(dq, x)

\* deque.append on a deque(maxlen=maxlen): drops from the left when full.
DequeAppend(dq, x, maxlen) ==
    IF Len(dq) >= maxlen THEN Append(Tail(dq), x) ELSE Append(dq, x)

\* deque(items, maxlen=maxlen): keeps the last maxlen items.
DequeOf(items, maxlen) == LastN(items, maxlen)

\* datetime.isoformat() and datetime.fromisoformat().
IsoFormat(t) == <<"iso", t>>
FromIsoFormat(s) == s[2]

\* _generate_alert_id: f"ALERT-{now:%Y%m%d%H%M%S%f}".
GenerateAlertId(t) == <<"ALERT", t>>

IpOf(req) == IF req.ip = <<>> THEN "unknown" ELSE req.ip[1]

IPs == {IpOf(r) : r \in Requests}

\* The ids callers ask for: every id a clock reading up to limit can give.
AlertIds(limit) == {GenerateAlertId(t) : t \in 0..limit}

\* The dict built in create_alert.  acknowledged_at is <<>> while the dict
\* has no such key.
NewAlert(req, idTime, tsTime) ==
    [ id |-> GenerateAlertId(idTime),
      timestamp |-> IsoFormat(tsTime),
      ip |-> IpOf(req),
      severity |-> req.severity,
      acknowledged |-> FALSE,
      notes |-> "",
      acknowledged_at |-> <<>> ]

----------------------------------------------------------------------------
(* JSON.                                                                   *)

JsonBool(b) == IF b THEN "true" ELSE "false"

\* json.dump of one alert dict: the members in key order; a key the dict
\* does not have is not written.
JsonDumpAlert(a) ==
    << <<"id", a.id>>, <<"timestamp", a.timestamp>>, <<"ip", a.ip>>,
       <<"severity", a.severity>>, <<"acknowledged", JsonBool(a.acknowledged)>>,
       <<"notes", a.notes>> >>
    \o (IF a.acknowledged_at = <<>> THEN <<>>
        ELSE << <<"acknowledged_at", a.acknowledged_at[1]>> >>)

JsonLoadAlert(o) ==
    [ id |-> o[1][2],
      timestamp |-> o[2][2],
      ip |-> o[3][2],
      severity |-> o[4][2],
      acknowledged |-> (o[5][2] = "true"),
      notes |-> o[6][2],
      acknowledged_at |-> IF Len(o) >= 7 THEN <<o[7][2]>> ELSE <<>> ]

JsonDump(history) == [i \in 1..Len(history) |-> JsonDumpAlert(history[i])]
JsonLoad(text) == [i \in 1..Len(text) |-> JsonLoadAlert(text[i])]

NoFile == [state |-> "absent", text |-> <<>>]
CorruptFile == [state |-> "corrupt", text |-> <<>>]

\* The records of the durable log, oldest first (<<>> when there is none).
Log == IF file.state = "ok" THEN JsonLoad(file.text) ELSE <<>>

----------------------------------------------------------------------------
(* Return values.                                                          *)

None == [kind |-> "None", alerts |-> <<>>]
True == [kind |-> "True", alerts |-> <<>>]
False == [kind |-> "False", alerts |-> <<>>]
Raised == [kind |-> "exception", alerts |-> <<>>]
Returned(a) == [kind |-> "alert", alerts |-> <<a>>]

\* The threads, and a thread that is not inside a call.
Threads == 1..MaxThreads
Idle == [pc |-> "idle", alert |-> <<>>, history |-> <<>>]

Call(name, id, notes, saved) ==
    [name |-> name, id |-> id, notes |-> notes, saved |-> saved]

----------------------------------------------------------------------------
(* save_alert and load_history.                                            *)

\* Mutant of Truncated: history[:10000], the oldest entries are kept.
TruncatedOldest(history) == SubSeq(history, 1, Min(Len(history), HISTORY_CAP))

\* history[-10000:] in save_alert.
Truncated(history) == LastN(history, HISTORY_CAP)

\* The try block of save_alert(alert) on file f.  outcome is the file
\* system's answer:
\*   "io_error"   open(..., 'r'), makedirs or open(..., 'w') raises: the file
\*                is as it was;
\*   "dump_error" open(..., 'w') has truncated the file and json.dump raises
\*                before it is complete: the file no longer parses;
\*   "ok"         nothing raises, unless the file does not parse, in which
\*                case json.load raises before anything is written.
\* saved is FALSE when the block was left by an exception.
SaveAlertTry(f, alert, outcome) ==
    LET history == IF f.state = "absent" THEN <<>> ELSE JsonLoad(f.text)
        kept == Truncated(Append(history, alert))
    IN  IF outcome = "io_error" \/ f.state = "corrupt"
        THEN [file |-> f, saved |-> FALSE]
        ELSE IF outcome = "dump_error"
        THEN [file |-> CorruptFile, saved |-> FALSE]
        ELSE [file |-> [state |-> "ok", text |-> JsonDump(kept)],
              saved |-> TRUE]

\* Mutant of SaveAlert: no except clause, a failure reaches the caller.
SaveAlertUncaught(f, alert, outcome) ==
    LET r == SaveAlertTry(f, alert, outcome)
    IN  [file |-> r.file, saved |-> r.saved, raised |-> ~r.saved]

\* save_alert: the except clause swallows every exception of the try block.
SaveAlert(f, alert, outcome) ==
    LET r == SaveAlertTry(f, alert, outcome)
    IN  [file |-> r.file, saved |-> r.saved, raised |-> FALSE]

\* The appends of load_history's loop onto the empty deque of __init__.
RECURSIVE AppendAll(_, _)
AppendAll(dq, items) ==
    IF items = <<>> THEN dq
    ELSE AppendAll(DequeAppend(dq, Head(items), ALERTS_MAXLEN), Tail(items))

\* Mutant of LoadHistory: history[:1000], the oldest entries are loaded.
LoadHistoryOldest(f, outcome) ==
    IF f.state = "absent" THEN <<>>
    ELSE IF outcome = "io_error" \/ f.state = "corrupt" THEN <<>>
    ELSE AppendAll(<<>>, SubSeq(JsonLoad(f.text), 1,
                                Min(Len(f.text), LOAD_LAST)))

\* load_history: self.alerts after the constructor has run on file f.
LoadHistory(f, outcome) ==
    IF f.state = "absent" THEN <<>>
    ELSE IF outcome = "io_error" \/ f.state = "corrupt" THEN <<>>
    ELSE AppendAll(<<>>, LastN(JsonLoad(f.text), LOAD_LAST))

----------------------------------------------------------------------------
(* The rate limiter.                                                       *)

\* The while loop of _should_create_alert: pops the timestamps older than
\* the cutoff from the left.
RECURSIVE PruneWindow(_, _)
PruneWindow(w, now) ==
    IF w # <<>> /\ Head(w) < now - MINUTE
    THEN PruneWindow(Tail(w), now)
    ELSE w

\* The value _should_create_alert returns on the pruned window.
WithinRateLimit(w) == Len(w) < max_alerts_per_minute

----------------------------------------------------------------------------
(* Store lookups and updates.                                              *)

\* Index of the first alert with this id, 0 when there is none.
FirstIndex(store, id) ==
    IF \E i \in 1..Len(store) : store[i].id = id
    THEN CHOOSE i \in 1..Len(store) :
            /\ store[i].id = id
            /\ \A j \in 1..(i - 1) : store[j].id # id
    ELSE 0

\* Mutant of Acknowledged: an alert that is acknowledged already is left as
\* it is.
AcknowledgedOnce(a, notes, now) ==
    IF a.acknowledged THEN a
    ELSE [a EXCEPT !.acknowledged = TRUE,
                   !.notes = notes,
                   !.acknowledged_at = <<IsoFormat(now)>>]

\* The three assignments of acknowledge_alert.
Acknowledged(a, notes, now) ==
    [a EXCEPT !.acknowledged = TRUE,
              !.notes = notes,
              !.acknowledged_at = <<IsoFormat(now)>>]

\* The list comprehension of clear_old_alerts.
NotOlderThan(store, cutoff) ==
    SelectSeq(store, LAMBDA a : FromIsoFormat(a.timestamp) > cutoff)

----------------------------------------------------------------------------
(* Operations.                                                             *)

\* A fresh AlertManager() with no history file yet.
InitWith(limits) ==
    /\ clock = 0
    /\ max_alerts_per_minute \in limits
    /\ alerts = LoadHistory(NoFile, "ok")
    /\ alert_counts = [ip \in IPs |-> 0]
    /\ recent_alerts = <<>>
    /\ file = NoFile
    /\ calls = 0
    /\ faults = 0
    /\ threads = [t \in Threads |-> Idle]
    /\ lastOp = Call("__init__", <<>>, "", FALSE)
    /\ ret = None

\* A file system failure is counted against MaxFaults.
Fault(outcome) ==
    /\ outcome # "ok" => faults < MaxFaults
    /\ faults' = IF outcome = "ok" THEN faults ELSE faults + 1

\* Time passes between two calls.
Tick(limit) ==
    /\ clock < limit
    /\ clock' = clock + 1
    /\ lastOp' = Call("tick", <<>>, "", FALSE)
    /\ ret' = None
    /\ UNCHANGED <<max_alerts_per_minute, alerts, alert_counts, recent_alerts,
                   file, calls, faults, threads>>

\* Mutant of RejectAlert: the call is recorded in the rate window before the
\* limit is checked.
RejectAlertRecorded(w) ==
    /\ recent_alerts' = DequeAppend(w, clock, RECENT_MAXLEN)
    /\ ret' = None
    /\ lastOp' = Call("create_alert", <<>>, "", FALSE)
    /\ UNCHANGED <<clock, max_alerts_per_minute, alerts, alert_counts, file,
                   faults, threads>>

\* create_alert, rate limiter says no (lines 32-33): w is the pruned window.
RejectAlert(w) ==
    /\ recent_alerts' = w
    /\ ret' = None
    /\ lastOp' = Call("create_alert", <<>>, "", FALSE)
    /\ UNCHANGED <<clock, max_alerts_per_minute, alerts, alert_counts, file,
                   faults, threads>>

\* create_alert, rate limiter says yes (lines 35-64).
AdmitAlert(w, req, gaps, outcome, limit) ==
    LET idTime == clock + gaps[1]
        tsTime == idTime + gaps[2]
        winTime == tsTime + gaps[3]
        alert == NewAlert(req, idTime, tsTime)
        s == SaveAlert(file, alert, outcome)
    IN  /\ winTime <= limit
        /\ Fault(outcome)
        /\ clock' = winTime
        /\ alerts' = DequeAppend(alerts, alert, ALERTS_MAXLEN)
        /\ recent_alerts' = DequeAppend(w, winTime, RECENT_MAXLEN)
        /\ alert_counts' = [alert_counts EXCEPT ![alert.ip] = @ + 1]
        /\ file' = s.file
        /\ ret' = IF s.raised THEN Raised ELSE Returned(alert)
        /\ lastOp' = Call("create_alert", alert.id, "", s.saved)
        /\ UNCHANGED <<max_alerts_per_minute, threads>>

CreateAlert(reqs, gapset, outcomes, limit) ==
    \E req \in reqs, gaps \in gapset, outcome \in outcomes :
        LET w == PruneWindow(recent_alerts, clock)
        IN  /\ calls < MaxCalls
            /\ calls' = calls + 1
            /\ IF WithinRateLimit(w)
               THEN AdmitAlert(w, req, gaps, outcome, limit)
               ELSE RejectAlert(w)

\* Mutant of AcknowledgeUnknown: an unknown id is an error.
AcknowledgeUnknownRaises(id, notes) ==
    /\ ret' = Raised
    /\ lastOp' = Call("acknowledge_alert", id, notes, FALSE)
    /\ UNCHANGED <<clock, max_alerts_per_minute, alerts, alert_counts,
                   recent_alerts, file, calls, faults, threads>>

\* acknowledge_alert, no alert with this id (line 126).
AcknowledgeUnknown(id, notes) ==
    /\ ret' = False
    /\ lastOp' = Call("acknowledge_alert", id, notes, FALSE)
    /\ UNCHANGED <<clock, max_alerts_per_minute, alerts, alert_counts,
                   recent_alerts, file, calls, faults, threads>>

\* acknowledge_alert, i is the first alert with this id (lines 121-125).
AcknowledgeAt(i, id, notes, outcome) ==
    LET alert == Acknowledged(alerts[i], notes, clock)
        s == SaveAlert(file, alert, outcome)
    IN  /\ Fault(outcome)
        /\ alerts' = [alerts EXCEPT ![i] = alert]
        /\ file' = s.file
        /\ ret' = IF s.raised THEN Raised ELSE True
        /\ lastOp' = Call("acknowledge_alert", id, notes, s.saved)
        /\ UNCHANGED <<clock, max_alerts_per_minute, alert_counts,
                       recent_alerts, calls, threads>>

AcknowledgeAlert(ids, noteset, outcomes) ==
    \E id \in ids, notes \in noteset, outcome \in outcomes :
        LET i == FirstIndex(alerts, id)
        IN  IF i = 0
            THEN AcknowledgeUnknown(id, notes)
            ELSE AcknowledgeAt(i, id, notes, outcome)

\* get_alert_by_id.
GetAlertById(ids) ==
    \E id \in ids :
        LET i == FirstIndex(alerts, id)
        IN  /\ ret' = IF i = 0 THEN None ELSE Returned(alerts[i])
            /\ lastOp' = Call("get_alert_by_id", id, "", FALSE)
            /\ UNCHANGED <<clock, max_alerts_per_minute, alerts, alert_counts,
                           recent_alerts, file, calls, faults, threads>>

Purge(age) ==
    [name |-> "clear_old_alerts", id |-> <<>>, notes |-> "", saved |-> FALSE,
     days |-> age]

\* clear_old_alerts(days): age is timedelta(days=days) in ticks.
ClearOldAlerts ==
    \E age \in 0..MaxAge :
        /\ alerts' = DequeOf(NotOlderThan(alerts, clock - age), ALERTS_MAXLEN)
        /\ ret' = None
        /\ lastOp' = Purge(age)
        /\ UNCHANGED <<clock, max_alerts_per_minute, alert_counts,
                       recent_alerts, file, calls, faults, threads>>

\* The process ends and a new AlertManager() is constructed on the same
\* history file and the same configuration.
Restart(outcomes) ==
    \E outcome \in outcomes :
        /\ Fault(outcome)
        /\ alerts' = LoadHistory(file, outcome)
        /\ alert_counts' = [ip \in IPs |-> 0]
        /\ recent_alerts' = <<>>
        /\ calls' = 0
        /\ ret' = None
        /\ lastOp' = Call("__init__", <<>>, "", FALSE)
        /\ UNCHANGED <<clock, max_alerts_per_minute, file, threads>>

\* get_alerts compares the isoformat strings of two timestamps.
TimestampAfter(a, b) == FromIsoFormat(a.timestamp) > FromIsoFormat(b.timestamp)

\* Where list.sort(key=timestamp, reverse=True) puts a, taken before every
\* element of the sorted list t: after the elements with a later timestamp,
\* before those with the same one (the sort is stable).
RECURSIVE InsertByTimestamp(_, _)
InsertByTimestamp(a, t) ==
    IF t # <<>> /\ TimestampAfter(Head(t), a)
    THEN <<Head(t)>> \o InsertByTimestamp(a, Tail(t))
    ELSE <<a>> \o t

\* Mutant of NewestFirst: list.sort without reverse=True, oldest first.
RECURSIVE OldestFirst(_)
OldestFirst(s) ==
    IF s = <<>> THEN <<>>
    ELSE LET t == OldestFirst(Tail(s))
             k == Cardinality({i \in 1..Len(t) :
                                  TimestampAfter(Head(s), t[i])})
         IN  SubSeq(t, 1, k) \o <<Head(s)>> \o SubSeq(t, k + 1, Len(t))

\* alerts.sort(key=lambda x: x['timestamp'], reverse=True).
RECURSIVE NewestFirst(_)
NewestFirst(s) ==
    IF s = <<>> THEN <<>>
    ELSE InsertByTimestamp(Head(s), NewestFirst(Tail(s)))

\* The two list comprehensions of get_alerts.  A filter is <<>> when the
\* argument is None and <<value>> otherwise; "if severity:" also skips the
\* empty string.
Filtered(store, severity, acknowledged) ==
    LET bySeverity ==
            IF severity = <<>> \/ severity[1] = "" THEN store
            ELSE SelectSeq(store, LAMBDA a : a.severity = severity[1])
    IN  IF acknowledged = <<>> THEN bySeverity
        ELSE SelectSeq(bySeverity,
                       LAMBDA a : a.acknowledged = acknowledged[1])

\* alerts[:limit] for limit >= 0.
FirstN(s, n) == SubSeq(s, 1, Min(n, Len(s)))

Query(limit, severity, acknowledged) ==
    [name |-> "get_alerts", id |-> <<>>, notes |-> "", saved |-> FALSE,
     limit |-> limit, severity |-> severity, acknowledged |-> acknowledged]

ReturnedList(list) == [kind |-> "list", alerts |-> list]

\* get_alerts(limit, severity, acknowledged).
GetAlerts(limits, severities, flags) ==
    \E limit \in limits, severity \in severities, acknowledged \in flags :
        /\ ret' = ReturnedList(FirstN(NewestFirst(
                      Filtered(alerts, severity, acknowledged)), limit))
        /\ lastOp' = Query(limit, severity, acknowledged)
        /\ UNCHANGED <<clock, max_alerts_per_minute, alerts, alert_counts,
                       recent_alerts, file, calls, faults, threads>>

\* A dict without keys.
EmptyDict == <<>>

\* severity_counts: the three severities from zero, and any other severity
\* met in the Store.
SeverityCounts(store) ==
    [s \in {"low", "medium", "high"} \cup {store[i].severity : i \in 1..Len(store)}
        |-> Cardinality({i \in 1..Len(store) : store[i].severity = s})]

\* ip_counts.items(): one (ip, count) pair per source, in the order in which
\* the sources first occur in the Store.
RECURSIVE IpCountItems(_, _, _)
IpCountItems(rest, store, seen) ==
    IF rest = <<>> THEN <<>>
    ELSE IF Head(rest).ip \in seen
         THEN IpCountItems(Tail(rest), store, seen)
         ELSE <<[ip |-> Head(rest).ip,
                 count |-> Cardinality({i \in 1..Len(store) :
                                           store[i].ip = Head(rest).ip})]>>
              \o IpCountItems(Tail(rest), store, seen \cup {Head(rest).ip})

RECURSIVE InsertByCount(_, _)
InsertByCount(item, t) ==
    IF t # <<>> /\ Head(t).count > item.count
    THEN <<Head(t)>> \o InsertByCount(item, Tail(t))
    ELSE <<item>> \o t

\* sorted(ip_counts.items(), key=lambda x: x[1], reverse=True).
RECURSIVE LargestFirst(_)
LargestFirst(items) ==
    IF items = <<>> THEN <<>>
    ELSE InsertByCount(Head(items), LargestFirst(Tail(items)))

\* top_ips.
TopIps(store) == FirstN(LargestFirst(IpCountItems(store, store, {})), TOP_IPS)

\* dict(top_ips).
DictOf(items) ==
    [ip \in {items[i].ip : i \in 1..Len(items)} |->
        items[CHOOSE i \in 1..Len(items) : items[i].ip = ip].count]

\* The dict get_statistics returns: four keys for an empty Store, six
\* otherwise.
Statistics(store, now) ==
    IF store = <<>>
    THEN [total_alerts |-> 0, by_severity |-> EmptyDict, by_ip |-> EmptyDict,
          recent_count |-> 0]
    ELSE [total_alerts |-> Len(store),
          by_severity |-> SeverityCounts(store),
          by_ip |-> DictOf(TopIps(store)),
          recent_count |->
              Cardinality({i \in 1..Len(store) :
                              FromIsoFormat(store[i].timestamp) > now - HOUR}),
          acknowledged_count |->
              Cardinality({i \in 1..Len(store) : store[i].acknowledged}),
          unacknowledged_count |->
              Cardinality({i \in 1..Len(store) : ~store[i].acknowledged})]

ReturnedStatistics(stats) == [kind |-> "stats", alerts |-> <<>>, stats |-> stats]

\* get_statistics().
GetStatistics ==
    /\ ret' = ReturnedStatistics(Statistics(alerts, clock))
    /\ lastOp' = Call("get_statistics", <<>>, "", FALSE)
    /\ UNCHANGED <<clock, max_alerts_per_minute, alerts, alert_counts,
                   recent_alerts, file, calls, faults, threads>>

\* Where in save_alert the process can die:
\*   "before_open" after json.load, before open(..., 'w') (line 186);
\*   "after_open"  open(..., 'w') has truncated the file, nothing is written;
\*   "in_dump"     json.dump has written a part of the new log;
\*   "after_dump"  the with block has closed the complete new log.
CrashPoints == {"before_open", "after_open", "in_dump", "after_dump"}

\* The history file a process leaves that dies at point in save_alert(alert).
\* A file that is empty or ends in the middle of the JSON text does not parse.
\* json.load of a file that does not parse raises before line 186 is reached,
\* and the process goes on to the except clause.
FileAfterCrash(f, alert, point) ==
    IF f.state = "corrupt" \/ point = "before_open" THEN f
    ELSE IF point \in {"after_open", "in_dump"} THEN CorruptFile
    ELSE SaveAlertTry(f, alert, "ok").file

Crashed(id, point) ==
    [name |-> "crash", id |-> id, notes |-> "", saved |-> FALSE,
     point |-> point]

\* An admitted create_alert whose process dies in save_alert, and the
\* AlertManager() of the process started afterwards on the same history file.
CrashInSaveAlert(reqs, points) ==
    \E req \in reqs, point \in points :
        LET w == PruneWindow(recent_alerts, clock)
            alert == NewAlert(req, clock, clock)
        IN  /\ WithinRateLimit(w)
            /\ Fault("crash")
            /\ file' = FileAfterCrash(file, alert, point)
            /\ alerts' = LoadHistory(file', "ok")
            /\ alert_counts' = [ip \in IPs |-> 0]
            /\ recent_alerts' = <<>>
            /\ calls' = 0
            /\ ret' = None
            /\ lastOp' = Crashed(alert.id, point)
            /\ UNCHANGED <<clock, max_alerts_per_minute, threads>>

\* create_alert called by several threads of one process.  Nothing in
\* AlertManager takes a lock, so a thread can be preempted between any two
\* statements; ThreadCheck, ThreadRecord, ThreadLoad and ThreadDump are four
\* consecutive stretches of one call, each run without preemption.

InCall(pc, alert, history) == [pc |-> pc, alert |-> alert, history |-> history]

ThreadStep == Call("create_alert_step", <<>>, "", FALSE)

\* Lines 32-33: _should_create_alert prunes the window and compares its
\* length with the limit; the caller that is refused returns None.
ThreadCheck(t) ==
    LET w == PruneWindow(recent_alerts, clock)
    IN  /\ threads[t].pc = "idle"
        /\ calls < MaxCalls
        /\ calls' = calls + 1
        /\ recent_alerts' = w
        /\ IF WithinRateLimit(w)
           THEN /\ threads' = [threads EXCEPT ![t] = InCall("admitted", <<>>, <<>>)]
                /\ ret' = None
                /\ lastOp' = ThreadStep
           ELSE /\ threads' = threads
                /\ ret' = None
                /\ lastOp' = Call("create_alert", <<>>, "", FALSE)
        /\ UNCHANGED <<clock, max_alerts_per_minute, alerts, alert_counts,
                       file, faults>>

\* Lines 35-59: the alert dict, the two appends and the count of its source.
ThreadRecord(t, reqs) ==
    \E req \in reqs :
        LET alert == NewAlert(req, clock, clock)
        IN  /\ threads[t].pc = "admitted"
            /\ alerts' = DequeAppend(alerts, alert, ALERTS_MAXLEN)
            /\ recent_alerts' = DequeAppend(recent_alerts, clock, RECENT_MAXLEN)
            /\ alert_counts' = [alert_counts EXCEPT ![alert.ip] = @ + 1]
            /\ threads' = [threads EXCEPT ![t] = InCall("recorded", alert, <<>>)]
            /\ ret' = None
            /\ lastOp' = ThreadStep
            /\ UNCHANGED <<clock, max_alerts_per_minute, file, calls, faults>>

\* Lines 173-182 of save_alert: the history is read from the file, the alert
\* appended and the list cut.  A file that does not parse ends the call in
\* the except clause.
ThreadLoad(t) ==
    /\ threads[t].pc = "recorded"
    /\ IF file.state = "corrupt"
       THEN /\ threads' = [threads EXCEPT ![t] = Idle]
            /\ ret' = Returned(threads[t].alert)
            /\ lastOp' = Call("create_alert", threads[t].alert.id, "", FALSE)
       ELSE /\ threads' = [threads EXCEPT ![t] =
                              InCall("loaded", threads[t].alert,
                                     Truncated(Append(Log, threads[t].alert)))]
            /\ ret' = None
            /\ lastOp' = ThreadStep
    /\ UNCHANGED <<clock, max_alerts_per_minute, alerts, alert_counts,
                   recent_alerts, file, calls, faults>>

\* Lines 185-187 and 64: the list is written over the file and the call
\* returns the alert.
ThreadDump(t) ==
    /\ threads[t].pc = "loaded"
    /\ file' = [state |-> "ok", text |-> JsonDump(threads[t].history)]
    /\ threads' = [threads EXCEPT ![t] = Idle]
    /\ ret' = Returned(threads[t].alert)
    /\ lastOp' = Call("create_alert", threads[t].alert.id, "", TRUE)
    /\ UNCHANGED <<clock, max_alerts_per_minute, alerts, alert_counts,
                   recent_alerts, calls, faults>>

----------------------------------------------------------------------------
(* Specifications.                                                         *)

\* The whole life cycle on a file system that does not fail, with the
\* limiter configured at the capacity of its window.
Init == InitWith({RECENT_MAXLEN})

Next ==
    \/ Tick(MaxClock)
    \/ CreateAlert(OneRequest, NoGaps, {"ok"}, MaxClock)
    \/ AcknowledgeAlert(AlertIds(MaxClock), {"n1"}, {"ok"})
    \/ GetAlertById(AlertIds(MaxClock))
    \/ ClearOldAlerts
    \/ Restart({"ok"})

Spec == Init /\ [][Next]_vars

\* The calls that persist, and the restart, on a file system that fails up
\* to MaxFaults times.
NextFaults ==
    \/ Tick(MaxClock)
    \/ CreateAlert(OneRequest, NoGaps, SaveOutcomes, MaxClock)
    \/ AcknowledgeAlert(AlertIds(MaxClock), {"n1"}, SaveOutcomes)
    \/ Restart(LoadOutcomes)

SpecFaults == Init /\ [][NextFaults]_vars

\* Repeated acknowledgment with varying notes.
NextAck ==
    \/ Tick(MaxClock)
    \/ CreateAlert(OneRequest, NoGaps, {"ok"}, MaxClock)
    \/ AcknowledgeAlert(AlertIds(MaxClock), Notes, {"ok"})

SpecAck == Init /\ [][NextAck]_vars

\* The rate limiter under every configured maximum: bursts of create_alert
\* calls and the passing of time.
InitRate == InitWith(0..MaxPerMinute)

NextRate ==
    \/ Tick(MaxRateClock)
    \/ CreateAlert(Requests, Gaps, {"ok"}, MaxRateClock)

SpecRate == InitRate /\ [][NextRate]_vars

\* The queries, on Stores of alerts of several sources and severities, some
\* of them reloaded from the log and so no longer in timestamp order.
SeverityFilters == { <<>>, <<"high">> }
AcknowledgedFilters == { <<>>, <<TRUE>>, <<FALSE>> }

NextQuery ==
    \/ Tick(MaxClock)
    \/ CreateAlert(Requests, NoGaps, {"ok"}, MaxClock)
    \/ AcknowledgeAlert(AlertIds(0), {"n1"}, {"ok"})
    \/ Restart({"ok"})
    \/ GetAlerts(0..MaxLimit, SeverityFilters, AcknowledgedFilters)
    \/ GetStatistics

SpecQuery == Init /\ [][NextQuery]_vars

\* The life cycle with processes that die while they persist an alert.
NextCrash ==
    \/ Tick(MaxClock)
    \/ CreateAlert(OneRequest, NoGaps, {"ok"}, MaxClock)
    \/ AcknowledgeAlert(AlertIds(MaxClock), {"n1"}, {"ok"})
    \/ CrashInSaveAlert(OneRequest, CrashPoints)
    \/ Restart({"ok"})

SpecCrash == Init /\ [][NextCrash]_vars

\* Threads of one process inside create_alert, with no lock.
NextThreads ==
    \/ Tick(MaxClock)
    \/ \E t \in Threads : ThreadCheck(t)
    \/ \E t \in Threads : ThreadRecord(t, Requests)
    \/ \E t \in Threads : ThreadLoad(t)
    \/ \E t \in Threads : ThreadDump(t)

SpecThreads == Init /\ [][NextThreads]_vars

\* Sequential create_alert calls under every configured limit, each call
\* reading the clock once, so that an alert's timestamp is the time of its
\* admission.
NextWindow ==
    \/ Tick(MaxRateClock)
    \/ CreateAlert(Requests, NoGaps, {"ok"}, MaxRateClock)

SpecWindow == InitRate /\ [][NextWindow]_vars

----------------------------------------------------------------------------
(* Vocabulary of the properties.                                           *)

RECURSIVE SumOver(_, _)
SumOver(f, S) ==
    IF S = {} THEN 0
    ELSE LET x == CHOOSE y \in S : TRUE
         IN  f[x] + SumOver(f, S \ {x})

\* Alerts admitted by this AlertManager since it was constructed.
Admitted == SumOver(alert_counts, IPs)

\* s is what is left of t after dropping entries from its left end.
IsSuffix(s, t) == Len(s) <= Len(t) /\ s = LastN(t, Len(s))

\* No alert of the store has this id.
Unknown(store, id) == \A i \in 1..Len(store) : store[i].id # id

\* The last call was a create_alert call that the limiter let through.
CreatedAlert == lastOp.name = "create_alert" /\ lastOp.id # <<>>

----------------------------------------------------------------------------
(* C1: the Store never holds more than ALERTS_MAXLEN (1000) records,       *)
(* whatever sequence of startup loads, create_alert, acknowledge_alert and *)
(* clear_old_alerts calls has run.                                         *)
C1_StoreBounded == Len(alerts) <= ALERTS_MAXLEN

\* A create_alert has appended to a full Store: the first call of a manager
\* that loaded a full Store from a log of created alerts.  At clock 0
\* clear_old_alerts removes all records or none, so the Store was still
\* full when the call was made.
C1_Witness ==
    /\ CreatedAlert
    /\ clock = 0
    /\ calls = 1
    /\ Len(alerts) = ALERTS_MAXLEN
    /\ Len(Log) > ALERTS_MAXLEN
    /\ \A i \in 1..Len(Log) : ~Log[i].acknowledged

(* C2: from an empty rate window, K+1 create_alert calls made within one   *)
(* second return exactly K records and one None, for every configured K.  *)
(* Stated on the calls made since construction in the first second.        *)
C2_BurstAdmitsExactlyK ==
    (calls = max_alerts_per_minute + 1 /\ clock <= SECOND)
        => Admitted = max_alerts_per_minute

(* C3: any two records returned by create_alert have different ids, also   *)
(* when both were admitted in the same clock tick.  Stated on the Store of *)
(* a manager that has only created alerts.                                 *)
C3_IdsDistinct ==
    \A i, j \in 1..Len(alerts) : i # j => alerts[i].id # alerts[j].id

(* C4: a create_alert call the rate limiter rejects returns None, leaves   *)
(* the Store, the per-source counters and the history file as they were,   *)
(* and adds no timestamp to the rate window.                               *)
C4_RejectedHasNoEffect ==
    [][ ( /\ lastOp'.name = "create_alert"
          /\ Len(PruneWindow(recent_alerts, clock)) >= max_alerts_per_minute )
        => ( /\ ret' = None
             /\ alerts' = alerts
             /\ alert_counts' = alert_counts
             /\ file' = file
             /\ IsSuffix(recent_alerts', recent_alerts) ) ]_vars

\* A call was rejected by a limiter that had admitted alerts before.
C4_Witness ==
    /\ lastOp.name = "create_alert"
    /\ ret = None
    /\ max_alerts_per_minute > 0
    /\ alerts # <<>>
    /\ file.state = "ok"
    /\ Admitted > 0

\* Number of entries of the log with this id.
Count(log, id) == Cardinality({i \in 1..Len(log) : log[i].id = id})

Reverse(s) == [i \in 1..Len(s) |-> s[Len(s) + 1 - i]]

\* The last call was an acknowledge_alert call on an id of the Store.
AcknowledgedAlert ==
    lastOp.name = "acknowledge_alert" /\ ~Unknown(alerts, lastOp.id)

\* The record the last call handed to save_alert.
Persisted ==
    IF lastOp.name = "create_alert"
    THEN ret.alerts[1]
    ELSE alerts[FirstIndex(alerts, lastOp.id)]

(* C5: persisting an acknowledgment replaces the log entry with that id    *)
(* and adds no second one: a log that holds the id once holds it once      *)
(* afterwards.                                                             *)
C5_AckReplacesLogEntry ==
    [][ ( /\ lastOp'.name = "acknowledge_alert"
          /\ lastOp'.saved
          /\ Count(Log, lastOp'.id) = 1 )
        => Count(Log', lastOp'.id) = 1 ]_vars

(* C6: when the persist step fails, create_alert still returns the new     *)
(* record and acknowledge_alert still returns True, nothing is raised, and *)
(* the Store holds the new record, or the acknowledgment, as after a       *)
(* persist that succeeded.                                                 *)
C6_PersistFailureSwallowed ==
    [][ /\ (CreatedAlert' /\ ~lastOp'.saved)
            => /\ ret'.kind = "alert"
               /\ ret'.alerts[1].id = lastOp'.id
               /\ alerts' # <<>>
               /\ alerts'[Len(alerts')] = ret'.alerts[1]
               /\ Len(alerts') = Min(Len(alerts) + 1, ALERTS_MAXLEN)
               /\ SubSeq(alerts', 1, Len(alerts') - 1)
                    = LastN(alerts, Len(alerts') - 1)
        /\ (lastOp'.name = "acknowledge_alert" /\ ~Unknown(alerts, lastOp'.id)
              /\ ~lastOp'.saved)
            => /\ ret' = True
               /\ Len(alerts') = Len(alerts)
               /\ LET i == FirstIndex(alerts, lastOp'.id)
                  IN  /\ alerts'[i].acknowledged
                      /\ alerts'[i].notes = lastOp'.notes
                      /\ alerts'[i].acknowledged_at = <<IsoFormat(clock')>>
      ]_vars

\* A create_alert call whose persist failed has returned.
C6_Witness ==
    /\ CreatedAlert
    /\ ~lastOp.saved
    /\ faults > 0
    /\ alerts # <<>>

(* C7 as claimed: after N records are persisted by create_alert and the    *)
(* manager is restarted, the reload yields the same N records, most recent *)
(* first, for every N up to HISTORY_CAP (10000).                           *)
C7_ReloadYieldsAllMostRecentFirst ==
    [][ ( /\ lastOp'.name = "__init__"
          /\ file.state = "ok"
          /\ \A i \in 1..Len(Log) : ~Log[i].acknowledged )
        => alerts' = Reverse(Log) ]_vars

(* C7 as amended: a record persisted by create_alert is read back from the *)
(* log equal in id and in every field, and after a restart the reload      *)
(* yields the last min(N, LOAD_LAST) (1000) records of the log in persist   *)
(* order, oldest first.                                                    *)
C7_ReloadYieldsRecentInLogOrder ==
    [][ /\ (lastOp'.name = "__init__" /\ file.state = "ok")
            => alerts' = LastN(Log, LOAD_LAST)
        /\ (CreatedAlert' /\ lastOp'.saved)
            => Log'[Len(Log')] = ret'.alerts[1]
      ]_vars

\* A manager restarted on a log of HISTORY_CAP created records holds the
\* last LOAD_LAST of them, two different records among them.
C7_Witness ==
    /\ lastOp.name = "__init__"
    /\ Len(Log) = HISTORY_CAP
    /\ \A i \in 1..Len(Log) : ~Log[i].acknowledged
    /\ Len(alerts) = LOAD_LAST
    /\ alerts[1] # alerts[Len(alerts)]

(* C8: after every successful persist the log holds at most HISTORY_CAP    *)
(* (10000) entries: the record just persisted last, before it the most     *)
(* recent entries of the log as it was, in their order; only the oldest    *)
(* entries are dropped.                                                    *)
C8_LogKeepsMostRecent ==
    [][ lastOp'.saved
        => LET n == Len(Log')
           IN  /\ n <= HISTORY_CAP
               /\ n = Min(Len(Log) + 1, HISTORY_CAP)
               /\ Log'[n] = Persisted'
               /\ SubSeq(Log', 1, n - 1) = LastN(Log, n - 1) ]_vars

\* A persist on a full log: every entry is an acknowledgment, so the entry
\* of the create_alert that came before them has been dropped.
C8_Witness ==
    /\ lastOp.saved
    /\ Len(Log) = HISTORY_CAP
    /\ \A i \in 1..Len(Log) : Log[i].acknowledged

(* C9: acknowledge_alert on an id that is not in the Store returns False,  *)
(* raises nothing and leaves the Store and the history file unchanged;     *)
(* get_alert_by_id on such an id returns None.                             *)
C9_UnknownIdNotFound ==
    [][ /\ (lastOp'.name = "acknowledge_alert" /\ Unknown(alerts, lastOp'.id))
            => (ret' = False /\ alerts' = alerts /\ file' = file)
        /\ (lastOp'.name = "get_alert_by_id" /\ Unknown(alerts, lastOp'.id))
            => (ret' = None /\ alerts' = alerts /\ file' = file)
      ]_vars

\* acknowledge_alert was called with an id that a non-empty Store lacks.
C9_Witness ==
    /\ lastOp.name = "acknowledge_alert"
    /\ Unknown(alerts, lastOp.id)
    /\ alerts # <<>>
    /\ file.state = "ok"

(* C10: acknowledge_alert on a stored id returns True whether or not the   *)
(* alert was acknowledged before, and leaves the first record with that id *)
(* with acknowledged = True and the notes and time of this call; the other *)
(* fields of the record and the other records are unchanged.               *)
C10_AcknowledgeOverwrites ==
    [][ (lastOp'.name = "acknowledge_alert" /\ ~Unknown(alerts, lastOp'.id))
        => LET i == FirstIndex(alerts, lastOp'.id)
           IN  /\ ret' = True
               /\ Len(alerts') = Len(alerts)
               /\ alerts'[i].acknowledged
               /\ alerts'[i].notes = lastOp'.notes
               /\ alerts'[i].acknowledged_at = <<IsoFormat(clock')>>
               /\ \A k \in {"id", "timestamp", "ip", "severity"} :
                      alerts'[i][k] = alerts[i][k]
               /\ \A j \in 1..Len(alerts) : j # i => alerts'[j] = alerts[j]
      ]_vars

\* The second acknowledgment of an alert, with other notes than the first:
\* the log holds the first acknowledgment, the Store holds the second.
C10_Witness ==
    /\ AcknowledgedAlert
    /\ \E k \in 1..Len(Log) :
          /\ Log[k].id = lastOp.id
          /\ Log[k].acknowledged
          /\ Log[k].notes # lastOp.notes
    /\ alerts[FirstIndex(alerts, lastOp.id)].notes = lastOp.notes

----------------------------------------------------------------------------
(* Vocabulary of the query claims. *)

\* How many times the record a occurs in the sequence s.
Occurrences(s, a) == Cardinality({i \in 1..Len(s) : s[i] = a})

\* The record a passes the filters of the query q.
Passes(a, q) ==
    /\ q.severity # <<>> => a.severity = q.severity[1]
    /\ q.acknowledged # <<>> => a.acknowledged = q.acknowledged[1]

Elements(s) == {s[i] : i \in 1..Len(s)}

\* C11: get_alerts returns stored records that pass the severity filter and
\* the acknowledged filter (each when given), never one that fails a filter,
\* most recent timestamp first, and exactly the first `limit` of them: as many
\* as min(limit, number of passing records), no record more often than the
\* Store holds it, and a passing record is left out only when the limit is
\* reached and then it is not more recent than the last record returned.
C11_GetAlertsFiltersSortsTruncates ==
    [][lastOp'.name = "get_alerts" =>
        LET q == lastOp'
            r == ret'.alerts
            passing == {i \in 1..Len(alerts) : Passes(alerts[i], q)}
        IN  /\ ret'.kind = "list"
            /\ alerts' = alerts
            /\ \A i \in 1..Len(r) :
                   /\ r[i] \in Elements(alerts)
                   /\ Passes(r[i], q)
                   /\ Occurrences(r, r[i]) <= Occurrences(alerts, r[i])
            /\ \A i \in 1..Len(r) : \A j \in i..Len(r) :
                   FromIsoFormat(r[i].timestamp) >= FromIsoFormat(r[j].timestamp)
            /\ Len(r) = Min(q.limit, Cardinality(passing))
            /\ \A i \in passing :
                   Occurrences(r, alerts[i]) < Occurrences(alerts, alerts[i])
                   => /\ Len(r) = q.limit
                      /\ \A j \in 1..Len(r) :
                             FromIsoFormat(alerts[i].timestamp)
                                 <= FromIsoFormat(r[j].timestamp)]_vars

\* A query with both filters and room left in the limit has returned one
\* record of a full Store and left out the one that fails a filter.
C11_Witness ==
    /\ lastOp.name = "get_alerts"
    /\ lastOp.severity = <<"high">>
    /\ lastOp.acknowledged = <<FALSE>>
    /\ lastOp.limit = MaxLimit
    /\ Len(alerts) = ALERTS_MAXLEN
    /\ Len(ret.alerts) = 1
    /\ \E i \in 1..Len(alerts) : ~Passes(alerts[i], lastOp)

\* C12: on every Store, the empty one included, get_statistics returns a
\* result whose total_alerts is the number of stored records, whose
\* by_severity gives the number of stored records of each of low, medium and
\* high (no entry standing for zero), whose by_ip lists at most TOP_IPS sources
\* with their exact counts, and whose acknowledged_count and
\* unacknowledged_count exist and add up to total_alerts.
C12_StatisticsComplete ==
    [][lastOp'.name = "get_statistics" =>
        LET s == ret'.stats
            Records(P(_)) == Cardinality({i \in 1..Len(alerts) : P(alerts[i])})
        IN  /\ ret'.kind = "stats"
            /\ s.total_alerts = Len(alerts)
            /\ \A sev \in {"low", "medium", "high"} :
                   LET HasSeverity(a) == a.severity = sev
                   IN  IF sev \in DOMAIN s.by_severity
                       THEN s.by_severity[sev] = Records(HasSeverity)
                       ELSE Records(HasSeverity) = 0
            /\ Cardinality(DOMAIN s.by_ip) <= TOP_IPS
            /\ \A ip \in DOMAIN s.by_ip :
                   LET HasIp(a) == a.ip = ip
                   IN  s.by_ip[ip] = Records(HasIp)
            /\ {"acknowledged_count", "unacknowledged_count"} \subseteq DOMAIN s
            /\ s.acknowledged_count + s.unacknowledged_count = s.total_alerts]_vars

----------------------------------------------------------------------------
(* Purge and eviction. *)

\* C13: clear_old_alerts(days) removes from the Store exactly the records
\* whose timestamp is older than now - days, keeps every other record, in
\* insertion order, and leaves the history file as it was.
C13_ClearRemovesExactlyOlder ==
    [][lastOp'.name = "clear_old_alerts" =>
        LET cutoff == clock - lastOp'.days
            Kept(a) == ~(FromIsoFormat(a.timestamp) < cutoff)
        IN  /\ alerts' = SelectSeq(alerts, Kept)
            /\ file' = file]_vars

\* C14: create_alert removes a record only by eviction, oldest first.  A
\* rejected call leaves the Store as it was; an admitted call puts its record
\* last, keeps the order of the others and drops nothing unless the Store was
\* full, and then only the oldest record.  With no purge and no restart the
\* Store is therefore the last ALERTS_MAXLEN admitted records in admission
\* order (the log holds the admitted records in that order).
C14_EvictionOldestFirst ==
    [][lastOp'.name = "create_alert" =>
        IF ret'.kind = "alert"
        THEN /\ alerts' # <<>>
             /\ alerts'[Len(alerts')] = ret'.alerts[1]
             /\ Len(alerts') = Min(Len(alerts) + 1, ALERTS_MAXLEN)
             /\ IsSuffix(SubSeq(alerts', 1, Len(alerts') - 1), alerts)
             /\ alerts' = LastN(Log', ALERTS_MAXLEN)
        ELSE alerts' = alerts]_vars

\* ALERTS_MAXLEN + 1 different records have been admitted since construction:
\* the first is gone from the Store and the others are there in admission
\* order.
C14_Witness ==
    /\ CreatedAlert
    /\ Admitted = ALERTS_MAXLEN + 1
    /\ Len(Log) = ALERTS_MAXLEN + 1
    /\ \A i, j \in 1..Len(Log) : i # j => Log[i] # Log[j]
    /\ Log[1] \notin Elements(alerts)
    /\ alerts = Tail(Log)

----------------------------------------------------------------------------
(* Crashes and concurrent callers. *)

\* C15: the rewrite of the log in save_alert is atomic.  When the process
\* dies while it persists an alert, the history file is afterwards either as
\* it was before the call or the complete new log, the old entries followed by
\* the new alert and cut to the last HISTORY_CAP; it is never a file that does
\* not parse.
C15_CrashLeavesOldOrNewLog ==
    [][lastOp'.name = "crash" =>
        \/ file' = file
        \/ /\ file'.state = "ok"
           /\ file.state # "corrupt"
           /\ Log' # <<>>
           /\ Log'[Len(Log')].id = lastOp'.id
           /\ Log' = LastN(Append(Log, Log'[Len(Log')]), HISTORY_CAP)]_vars

\* No thread is inside create_alert.
AllIdle == \A t \in Threads : threads[t].pc = "idle"

\* C16: the check of the rate limit and the recording of the admission are
\* atomic with respect to other create_alert calls, so that with two or more
\* concurrent callers no 60-second window holds more than
\* MAX_ALERTS_PER_MINUTE admissions.  Stated on the first minute of an
\* AlertManager, a window that holds every admission made so far.
C16_ConcurrentAdmissionsWithinLimit ==
    clock <= MINUTE => Admitted <= max_alerts_per_minute

\* C17: persists are serialized, no update is lost.  When the concurrent
\* create_alert calls have all returned, none after an I/O error, the log
\* holds the record of every call (of no more calls than the Store and the log
\* have room for, so that nothing was evicted or cut).
C17_NoPersistLost ==
    (AllIdle /\ Admitted <= Min(ALERTS_MAXLEN, HISTORY_CAP))
        => \A i \in 1..Len(alerts) :
               Occurrences(Log, alerts[i]) = Occurrences(alerts, alerts[i])

----------------------------------------------------------------------------
(* The sliding window, restarts and unreadable history files. *)

\* The admissions of the last minute: the log entries whose timestamp is not
\* older than one minute.
AdmittedLastMinute ==
    Cardinality({i \in 1..Len(Log) :
                    FromIsoFormat(Log[i].timestamp) >= clock - MINUTE})

\* C18: in sequential use and for every configured maximum K, a create_alert
\* call is admitted if and only if fewer than K alerts were admitted during
\* the minute before the call; admissions older than a minute do not count.
C18_AdmittedIffWindowBelowLimit ==
    [][lastOp'.name = "create_alert" =>
        (ret'.kind = "alert" <=> AdmittedLastMinute < max_alerts_per_minute)]_vars

\* The log entries a restart loads.
RecentLog == LastN(Log, LOAD_LAST)

\* The log entries a restart loads hold an acknowledgment of this id.
AcknowledgedInLog(id) ==
    \E i \in 1..Len(RecentLog) : RecentLog[i].id = id /\ RecentLog[i].acknowledged

\* The last acknowledgment of this id that was persisted.
LastAcknowledgment(id) ==
    RecentLog[CHOOSE i \in 1..Len(RecentLog) :
                 /\ RecentLog[i].id = id /\ RecentLog[i].acknowledged
                 /\ \A j \in (i + 1)..Len(RecentLog) :
                        ~(RecentLog[j].id = id /\ RecentLog[j].acknowledged)]

\* C19: an acknowledgment survives a restart.  When the log entries that a
\* restart loads hold a persisted acknowledgment of an id, the Store of the
\* restarted manager holds exactly one record with that id, and the record
\* get_alert_by_id finds for it (the first with that id) is acknowledged and
\* carries the notes of that acknowledgment.
C19_AcknowledgmentSurvivesRestart ==
    [][lastOp'.name = "__init__" =>
        \A id \in AlertIds(MaxClock) :
            AcknowledgedInLog(id) =>
                /\ Count(alerts', id) = 1
                /\ alerts'[FirstIndex(alerts', id)].acknowledged
                /\ alerts'[FirstIndex(alerts', id)].notes
                       = LastAcknowledgment(id).notes]_vars

\* C20: a history file that is missing or does not parse at startup counts
\* as no history.  The constructor raises nothing and the Store starts empty;
\* the first create_alert of that manager, when no file operation fails,
\* leaves a log that holds its record and nothing else, as it would on an
\* empty log.
C20_UnreadableHistoryIsNoHistory ==
    [][ /\ (lastOp'.name = "__init__" /\ file.state # "ok")
            => (alerts' = <<>> /\ ret'.kind # "exception")
        /\ ( /\ calls = 0 /\ alerts = <<>> /\ file.state # "ok"
             /\ CreatedAlert' /\ faults' = faults )
            => /\ ret'.kind = "alert"
               /\ file'.state = "ok"
               /\ Log' = <<ret'.alerts[1]>> ]_vars

====
